---- MODULE Spec2Model ----
(***************************************************************************)
(* Model of package but (src/errors.go): the reporter functions IfError,   *)
(* IfErrorf, IfFatal, IfFatalf, Log, Logf, Fatal, Fatalf and the composite *)
(* error type Errors with its methods Error and Errors.                    *)
(*                                                                         *)
(* Text is a sequence of tokens.  Every character that comes from an input *)
(* (a message, a template, an argument) is a one-character token.  The     *)
(* diagnostics package fmt emits for a malformed format ("%!(NOVERB)",     *)
(* "(MISSING)", "%!(EXTRA ", type names) are multi-character tokens, so a   *)
(* diagnostic never compares equal to input characters.                    *)
(***************************************************************************)
EXTENDS Naturals, Sequences, FiniteSets

VARIABLES
    status,       \* "running", "exited" (os.Exit was called) or "panicked"
    stderrCount,  \* number of writes os.Stderr has received so far
    exitCount,    \* number of times os.Exit has been invoked so far
    call,         \* the reporter call in progress or just returned
    obj,          \* an Errors value owned by the caller
    mcall         \* the last method call made on obj

vars == <<status, stderrCount, exitCount, call, obj, mcall>>

\* ------------------------------------------------------------- bounds

MaxArgs == 2      \* longest variadic argument list
MaxFormat == 2    \* longest format template
MaxWrites == 2    \* writes to stderr after which no further call is made
MaxItems == 2     \* longest Errs list

\* The status every terminating function passes to os.Exit.
ExitStatus == 1

\* ------------------------------------------------------------- text

NL == "\n"
TAB == "\t"

RECURSIVE SeqsUpTo(_, _)
SeqsUpTo(S, n) ==
    IF n = 0 THEN {<<>>}
    ELSE LET shorter == SeqsUpTo(S, n - 1)
         IN  shorter \cup {Append(s, x) : s \in {t \in shorter : Len(t) = n - 1}, x \in S}

RECURSIVE Flatten(_)
Flatten(ss) == IF ss = <<>> THEN <<>> ELSE Head(ss) \o Flatten(Tail(ss))

\* ------------------------------------------------------------- error values

NilErr == [kind |-> "nil"]
\* errors.New(s)
NewError(s) == [kind |-> "errorString", s |-> s]
\* the *fmt.wrapError that fmt.Errorf returns for one %w operand
WrapError(msg, err) == [kind |-> "wrapError", msg |-> msg, err |-> err]
\* the struct type Errors
ErrorsValue(msg, errs) == [kind |-> "Errors", Msg |-> msg, Errs |-> errs]

\* errors.Unwrap
Unwrap(e) == IF e.kind = "wrapError" THEN e.err ELSE NilErr

\* strings.Join as called by Errors.Error
RECURSIVE JoinFrom(_, _, _)
JoinFrom(b, elems, sep) ==
    IF elems = <<>> THEN b ELSE JoinFrom(b \o sep \o Head(elems), Tail(elems), sep)

\* Join with the tab dropped from the separator
JoinNoTab(elems, sep) ==
    IF elems = <<>> THEN <<>> ELSE JoinFrom(Head(elems), Tail(elems), <<NL>>)

Join(elems, sep) ==
    IF elems = <<>> THEN <<>> ELSE JoinFrom(Head(elems), Tail(elems), sep)

\* s[0] without the placeholder for an empty Msg
Slot0NoPlaceholder(e) == e.Msg

\* s[0] of Errors.Error
Slot0(e) == IF e.Msg # <<>> THEN e.Msg ELSE <<NL, TAB>>

\* The outcome of calling a method that returns a string: the string, or a panic.
Returned(str) == [ok |-> TRUE, str |-> str]
Panic == [ok |-> FALSE, str |-> <<>>]

RECURSIVE ErrorOf(_)
\* Errors.Error
Errors_Error(e) ==
    LET n == Len(e.Errs)
        item == [i \in 1..n |-> ErrorOf(e.Errs[i])]
        s == [i \in 1..(n + 1) |-> IF i = 1 THEN Slot0(e) ELSE item[i - 1].str]
    IN  IF \E i \in 1..n : ~item[i].ok THEN Panic
        ELSE Returned(Join(s, <<NL, TAB>>))

\* e.Error() through the error interface; a nil interface value has no method
\* to call and the call panics (nil pointer dereference).
ErrorOf(e) ==
    CASE e.kind = "nil" -> Panic
      [] e.kind = "errorString" -> Returned(e.s)
      [] e.kind = "wrapError" -> Returned(e.msg)
      [] e.kind = "Errors" -> Errors_Error(e)

\* Errors returning a shortened list
Errors_ErrorsDropLast(e) ==
    IF e.Errs = <<>> THEN <<>> ELSE SubSeq(e.Errs, 1, Len(e.Errs) - 1)

\* Errors.Errors
Errors_Errors(e) == e.Errs

\* The text of e.Error() for an error value whose Error method returns.
ErrorText(e) == ErrorOf(e).str

\* ------------------------------------------------------------- package fmt
\* The operands (interface{} values) handed to the variadic functions.

StringArg(s) == [kind |-> "string", s |-> s]
BoolArg(b) == [kind |-> "bool", b |-> b]
ErrorArg(e) == [kind |-> "error", e |-> e]

TypeName(a) ==
    CASE a.kind = "string" -> "string"
      [] a.kind = "bool" -> "bool"
      [] a.kind = "error" /\ a.e.kind = "errorString" -> "*errors.errorString"
      [] a.kind = "error" /\ a.e.kind = "wrapError" -> "*fmt.wrapError"
      [] a.kind = "error" /\ a.e.kind = "Errors" -> "but.Errors"

\* An operand under the verb %v.
ValueText(a) ==
    CASE a.kind = "string" -> a.s
      [] a.kind = "bool" -> IF a.b THEN <<"t", "r", "u", "e">> ELSE <<"f", "a", "l", "s", "e">>
      [] a.kind = "error" -> ErrorText(a.e)

\* fmt's report of a verb that does not fit its operand, "%!verb(type=value)".
\* For an error operand the value is printed by reflection, without the Error
\* method; the dump is kept as one opaque token.
BadVerb(verb, a) ==
    IF a.kind = "error"
    THEN <<"%!", verb, "(", TypeName(a), "=", "{reflect}", ")">>
    ELSE <<"%!", verb, "(", TypeName(a), "=">> \o ValueText(a) \o <<")">>

\* printArg: one operand under one verb.  wrapErrs is set by Errorf only.
\* The verbs modelled are v, s, t and w; every other character after '%' is a
\* bad verb for the operands modelled (flag, width and index characters are
\* kept out of the alphabets).
PrintArg(a, verb, wrapErrs) ==
    CASE a.kind = "string" ->
            [text |-> IF verb \in {"v", "s"} THEN a.s ELSE BadVerb(verb, a), wrapped |-> <<>>]
      [] a.kind = "bool" ->
            [text |-> IF verb \in {"v", "t"} THEN ValueText(a) ELSE BadVerb(verb, a),
             wrapped |-> <<>>]
      [] a.kind = "error" ->
            IF verb = "w" /\ wrapErrs THEN [text |-> ErrorText(a.e), wrapped |-> <<a.e>>]
            ELSE IF verb \in {"v", "s"} THEN [text |-> ErrorText(a.e), wrapped |-> <<>>]
            ELSE [text |-> BadVerb(verb, a), wrapped |-> <<>>]

RECURSIVE ExtraList(_, _)
ExtraList(a, argNum) ==
    IF argNum >= Len(a) THEN <<>>
    ELSE <<TypeName(a[argNum + 1]), "=">> \o ValueText(a[argNum + 1])
         \o (IF argNum + 1 < Len(a) THEN <<", ">> ELSE <<>>)
         \o ExtraList(a, argNum + 1)

\* the operands no verb consumed, reported after the formatted text
Extra(a, argNum) ==
    IF argNum < Len(a) THEN <<"%!(EXTRA ">> \o ExtraList(a, argNum) \o <<")">> ELSE <<>>

Before(pre, wr, r) == [text |-> pre \o r.text, wrapped |-> wr \o r.wrapped]

\* doPrintf: argNum operands of a are already consumed.
RECURSIVE DoPrintf(_, _, _, _)
DoPrintf(format, a, argNum, wrapErrs) ==
    IF format = <<>> THEN [text |-> Extra(a, argNum), wrapped |-> <<>>]
    ELSE IF Head(format) # "%"
    THEN Before(<<Head(format)>>, <<>>, DoPrintf(Tail(format), a, argNum, wrapErrs))
    ELSE IF Len(format) = 1
    THEN [text |-> <<"%!(NOVERB)">> \o Extra(a, argNum), wrapped |-> <<>>]
    ELSE LET verb == format[2]
             rest == SubSeq(format, 3, Len(format))
         IN  IF verb = "%"
             THEN Before(<<"%">>, <<>>, DoPrintf(rest, a, argNum, wrapErrs))
             ELSE IF argNum >= Len(a)
             THEN Before(<<"%!", verb, "(MISSING)">>, <<>>,
                         DoPrintf(rest, a, argNum, wrapErrs))
             ELSE LET p == PrintArg(a[argNum + 1], verb, wrapErrs)
                  IN  Before(p.text, p.wrapped, DoPrintf(rest, a, argNum + 1, wrapErrs))

\* fmt.Sprintf, and the text fmt.Fprintf writes
Sprintf(format, a) == DoPrintf(format, a, 0, FALSE).text

\* fmt.Errorf: an error whose text is the formatted string and which wraps
\* the operand of %w, when one was consumed by a %w verb.
Errorf(format, a) ==
    LET r == DoPrintf(format, a, 0, TRUE)
    IN  IF r.wrapped = <<>> THEN NewError(r.text) ELSE WrapError(r.text, r.wrapped[1])

\* fmt.Sprint: operands under %v, a space between two operands when neither
\* is a string.
RECURSIVE SprintFrom(_, _)
SprintFrom(a, argNum) ==
    IF argNum >= Len(a) THEN <<>>
    ELSE (IF argNum > 0 /\ a[argNum].kind # "string" /\ a[argNum + 1].kind # "string"
          THEN <<" ">> ELSE <<>>)
         \o ValueText(a[argNum + 1]) \o SprintFrom(a, argNum + 1)

Sprint(a) == SprintFrom(a, 0)

\* fmt.Sprintln, the text fmt.Fprintln writes: operands under %v, always a
\* space between operands, and a line break at the end.
RECURSIVE SprintlnFrom(_, _)
SprintlnFrom(a, argNum) ==
    IF argNum >= Len(a) THEN <<NL>>
    ELSE (IF argNum > 0 THEN <<" ">> ELSE <<>>)
         \o ValueText(a[argNum + 1]) \o SprintlnFrom(a, argNum + 1)

Sprintln(a) == SprintlnFrom(a, 0)

\* ------------------------------------------------------------- reporter
\* What a call does to its surroundings, in order: writes to os.Stderr and
\* invocations of os.Exit.

WriteEv(text) == [ev |-> "write", text |-> text, code |-> 0]
ExitEv(code) == [ev |-> "exit", text |-> <<>>, code |-> code]

\* The outcome of a reporter function: its return value (FALSE when it has
\* none), its events, and the error value it ended up printing.
Outcome(ret, events, err) == [ret |-> ret, events |-> events, err |-> err]

AnnotationSuffix == <<":", " ", "%", "w">>

\* IfError without its nil check
IfErrorNoNilCheck(err, args) ==
    Outcome(TRUE, <<WriteEv(<<"<nil>", NL>>)>>, err)

IfError(err, args) ==
    IF err # NilErr
    THEN LET e == IF Len(args) > 0
                  THEN Errorf(Sprint(args) \o AnnotationSuffix, <<ErrorArg(err)>>)
                  ELSE err
         IN  Outcome(TRUE, <<WriteEv(Sprintln(<<ErrorArg(e)>>))>>, e)
    ELSE Outcome(FALSE, <<>>, err)

IfErrorf(err, format, args) ==
    IF err # NilErr
    THEN LET e == Errorf(format \o AnnotationSuffix, Append(args, ErrorArg(err)))
         IN  Outcome(TRUE, <<WriteEv(Sprintln(<<ErrorArg(e)>>))>>, e)
    ELSE Outcome(FALSE, <<>>, err)

\* IfFatal calling os.Exit before printing
IfFatalExitFirst(err, args) ==
    IF err # NilErr
    THEN Outcome(FALSE, <<ExitEv(ExitStatus)>> \o IfError(err, args).events, err)
    ELSE Outcome(FALSE, <<>>, err)

IfFatal(err, args) ==
    IF err # NilErr
    THEN LET r == IfError(err, args)
         IN  Outcome(FALSE, r.events \o <<ExitEv(ExitStatus)>>, r.err)
    ELSE Outcome(FALSE, <<>>, err)

\* IfFatalf with os.Exit outside the nil check
IfFatalfAlwaysExits(err, format, args) ==
    LET r == IfErrorf(err, format, args)
    IN  Outcome(FALSE, r.events \o <<ExitEv(ExitStatus)>>, r.err)

IfFatalf(err, format, args) ==
    IF err # NilErr
    THEN LET r == IfErrorf(err, format, args)
         IN  Outcome(FALSE, r.events \o <<ExitEv(ExitStatus)>>, r.err)
    ELSE Outcome(FALSE, <<>>, err)

\* Log through fmt.Fprint instead of fmt.Fprintln
LogNoLn(args) == Outcome(FALSE, <<WriteEv(Sprint(args))>>, NilErr)

Log(args) == Outcome(FALSE, <<WriteEv(Sprintln(args))>>, NilErr)

Logf(format, args) == Outcome(FALSE, <<WriteEv(Sprintf(format, args))>>, NilErr)

Fatal(args) ==
    Outcome(FALSE, <<WriteEv(Sprintln(args)), ExitEv(ExitStatus)>>, NilErr)

Fatalf(format, args) ==
    Outcome(FALSE, <<WriteEv(Sprintf(format, args)), ExitEv(ExitStatus)>>, NilErr)

\* ------------------------------------------------------------- inputs

ErrD == NewError(<<"d">>)
ErrE == NewError(<<"e">>)

\* the errors handed to the reporter: nil, a leaf, a composite
ErrPool == {NilErr, ErrD, ErrorsValue(<<"f">>, <<ErrD, ErrE>>)}

\* the variadic operands: two strings (one is a lone '%') and a non-string
Parts == {StringArg(<<"a">>), StringArg(<<"%">>), BoolArg(TRUE)}
ArgLists == SeqsUpTo(Parts, MaxArgs)

FormatAlphabet == {"a", "%", "s", "w"}
Formats == SeqsUpTo(FormatAlphabet, MaxFormat)

Msgs == {<<>>, <<"f">>}
\* the entries of an Errs list: nil, leaves, and composites (nesting)
ItemPool == {NilErr, ErrD, ErrE, ErrorsValue(<<>>, <<>>), ErrorsValue(<<"g">>, <<ErrE>>)}

\* ------------------------------------------------------------- state machine

NoCall ==
    [fn |-> "none", err |-> NilErr, format |-> <<>>, args |-> <<>>, before |-> 0,
     ret |-> FALSE, events |-> <<>>, outErr |-> NilErr]

NoMethodCall ==
    [fn |-> "none", recv |-> ErrorsValue(<<>>, <<>>), out |-> Returned(<<>>),
     list |-> <<>>, nError |-> 0, first |-> Returned(<<>>)]

Init ==
    /\ status = "running"
    /\ stderrCount = 0
    /\ exitCount = 0
    /\ call = NoCall
    /\ obj = ErrorsValue(<<>>, <<>>)
    /\ mcall = NoMethodCall

Count(events, kind) == Cardinality({i \in 1..Len(events) : events[i].ev = kind})

\* The process is alive and its caller is between two calls.
Ready ==
    /\ status = "running"
    /\ call.fn = "none"
    /\ stderrCount < MaxWrites

\* A caller at the top level invokes fn; r is what the function does.
Invoke(fn, err, format, args, r) ==
    /\ call' = [fn |-> fn, err |-> err, format |-> format, args |-> args,
                before |-> stderrCount, ret |-> r.ret, events |-> r.events,
                outErr |-> r.err]
    /\ stderrCount' = stderrCount + Count(r.events, "write")
    /\ exitCount' = exitCount + Count(r.events, "exit")
    /\ status' = IF Count(r.events, "exit") > 0 THEN "exited" ELSE status
    /\ UNCHANGED <<obj, mcall>>

IfErrorCall ==
    /\ Ready
    /\ \E err \in ErrPool, args \in ArgLists :
           Invoke("IfError", err, <<>>, args, IfError(err, args))

IfErrorfCall ==
    /\ Ready
    /\ \E err \in ErrPool, format \in Formats, args \in ArgLists :
           Invoke("IfErrorf", err, format, args, IfErrorf(err, format, args))

IfFatalCall ==
    /\ Ready
    /\ \E err \in ErrPool, args \in ArgLists :
           Invoke("IfFatal", err, <<>>, args, IfFatal(err, args))

IfFatalfCall ==
    /\ Ready
    /\ \E err \in ErrPool, format \in Formats, args \in ArgLists :
           Invoke("IfFatalf", err, format, args, IfFatalf(err, format, args))

LogCall ==
    /\ Ready
    /\ \E args \in ArgLists : Invoke("Log", NilErr, <<>>, args, Log(args))

LogfCall ==
    /\ Ready
    /\ \E format \in Formats, args \in ArgLists :
           Invoke("Logf", NilErr, format, args, Logf(format, args))

FatalCall ==
    /\ Ready
    /\ \E args \in ArgLists : Invoke("Fatal", NilErr, <<>>, args, Fatal(args))

FatalfCall ==
    /\ Ready
    /\ \E format \in Formats, args \in ArgLists :
           Invoke("Fatalf", NilErr, format, args, Fatalf(format, args))

\* The function returned and the caller goes on; after os.Exit nothing does.
Return ==
    /\ status = "running"
    /\ call.fn # "none"
    /\ call' = NoCall
    /\ UNCHANGED <<status, stderrCount, exitCount, obj, mcall>>

Next ==
    \/ IfErrorCall
    \/ IfErrorfCall
    \/ IfFatalCall
    \/ IfFatalfCall
    \/ LogCall
    \/ LogfCall
    \/ FatalCall
    \/ FatalfCall
    \/ Return

Spec == Init /\ [][Next]_vars

\* The caller builds an Errors value: a literal with a message ...
NewErrors ==
    /\ status = "running"
    /\ \E msg \in Msgs : obj' = ErrorsValue(msg, <<>>)
    /\ mcall' = NoMethodCall
    /\ UNCHANGED <<status, stderrCount, exitCount, call>>

\* ... and appends to its Errs field.
AppendErr ==
    /\ status = "running"
    /\ Len(obj.Errs) < MaxItems
    /\ \E e \in ItemPool : obj' = [obj EXCEPT !.Errs = Append(@, e)]
    /\ mcall' = NoMethodCall
    /\ UNCHANGED <<status, stderrCount, exitCount, call>>

\* obj.Error(): the receiver is a copy and the method writes to no field.
ErrorCall ==
    /\ status = "running"
    /\ LET r == Errors_Error(obj)
       IN  /\ mcall' = [fn |-> "Error", recv |-> obj, out |-> r, list |-> <<>>,
                        nError |-> IF mcall.nError = 0 THEN 1 ELSE 2,
                        first |-> IF mcall.nError = 0 THEN r ELSE mcall.first]
           /\ status' = IF r.ok THEN status ELSE "panicked"
    /\ UNCHANGED <<stderrCount, exitCount, call, obj>>

\* obj.Errors()
ErrorsCall ==
    /\ status = "running"
    /\ mcall' = [mcall EXCEPT !.fn = "Errors", !.recv = obj, !.out = Returned(<<>>),
                              !.list = Errors_Errors(obj)]
    /\ UNCHANGED <<status, stderrCount, exitCount, call, obj>>

NextErrors ==
    \/ NewErrors
    \/ AppendErr
    \/ ErrorCall
    \/ ErrorsCall

SpecErrors == Init /\ [][NextErrors]_vars

\* ------------------------------------------------------------- properties
\* Reference texts, written from the documented behaviour and not from the
\* code paths above.

\* the parts' texts with nothing between them
ConcatParts(args) == Flatten([i \in 1..Len(args) |-> ValueText(args[i])])

\* the parts' texts with one space between neighbours
SpaceJoined(args) ==
    IF args = <<>> THEN <<>>
    ELSE ValueText(args[1])
         \o Flatten([i \in 1..(Len(args) - 1) |-> <<" ">> \o ValueText(args[i + 1])])

RECURSIVE NoNilEntry(_)
NoNilEntry(e) ==
    /\ e.kind # "nil"
    /\ e.kind = "Errors" => \A i \in 1..Len(e.Errs) : NoNilEntry(e.Errs[i])

\* header (or placeholder) and then every item on its own indented line
RECURSIVE Rendering(_)
Rendering(e) ==
    CASE e.kind = "errorString" -> e.s
      [] e.kind = "wrapError" -> e.msg
      [] e.kind = "Errors" ->
            (IF e.Msg = <<>> THEN <<NL, TAB>> ELSE e.Msg)
            \o Flatten([i \in 1..Len(e.Errs) |-> <<NL, TAB>> \o Rendering(e.Errs[i])])

Exits(c) == Count(c.events, "exit") > 0
Writes(c) == Count(c.events, "write")

\* C1: IfError(e) with no annotation arguments returns true iff e is non-nil,
\* writes to the sink iff it returns true, and leaves the sink untouched when
\* e is nil.
C1_IfErrorReportsIffNonNil ==
    (call.fn = "IfError" /\ call.args = <<>>) =>
        /\ call.ret = (call.err # NilErr)
        /\ (Writes(call) > 0) = call.ret
        /\ stderrCount = call.before + (IF call.ret THEN 1 ELSE 0)
        /\ call.err = NilErr => (call.events = <<>> /\ stderrCount = call.before)

C1_Witness ==
    /\ call.fn = "IfError"
    /\ call.args = <<>>
    /\ call.err = NilErr
    /\ call.before > 0
    /\ ~call.ret

\* C2 as stated: for every non-nil e and non-empty parts p, IfError(e, p...)
\* prints concat(p) + ": " + e.Error() + line break, and the error it printed
\* unwraps to e, whatever the parts are.
C2_AnnotationIsConcatOfParts ==
    (call.fn = "IfError" /\ call.err # NilErr /\ call.args # <<>>) =>
        /\ call.events
             = <<WriteEv(ConcatParts(call.args) \o <<":", " ">> \o ErrorText(call.err)
                         \o <<NL>>)>>
        /\ Unwrap(call.outErr) = call.err

\* C3 as stated: for every non-nil e, IfErrorf(e, template, args...) prints the
\* formatted annotation, ": ", e.Error() and a line break, and the printed
\* error's cause is e, also with no args; IfError(e) with no annotation
\* arguments prints e itself, unwrapped.
C3_FormattedAlwaysAnnotatesAndWraps ==
    /\ (call.fn = "IfErrorf" /\ call.err # NilErr) =>
          /\ call.events
               = <<WriteEv(Sprintf(call.format, call.args) \o <<":", " ">>
                           \o ErrorText(call.err) \o <<NL>>)>>
          /\ Unwrap(call.outErr) = call.err
    /\ (call.fn = "IfError" /\ call.err # NilErr /\ call.args = <<>>) =>
          /\ call.events = <<WriteEv(ErrorText(call.err) \o <<NL>>)>>
          /\ call.outErr = call.err

Terminating(c) ==
    \/ c.fn \in {"Fatal", "Fatalf"}
    \/ c.fn \in {"IfFatal", "IfFatalf"} /\ c.err # NilErr

\* the message a terminating call is to print
FatalMessage(c) ==
    CASE c.fn = "Fatal" -> SpaceJoined(c.args) \o <<NL>>
      [] c.fn = "Fatalf" -> Sprintf(c.format, c.args)
      [] c.fn = "IfFatal" -> IfError(c.err, c.args).events[1].text
      [] c.fn = "IfFatalf" -> IfErrorf(c.err, c.format, c.args).events[1].text

\* C4: a terminating call (IfFatal, IfFatalf with a non-nil error; Fatal,
\* Fatalf always) writes its message to the sink exactly once and then invokes
\* exit exactly once with the non-zero status 1; exit never comes before the
\* write, and nothing is written after it.
C4_WriteOnceThenExitOnce ==
    /\ exitCount <= 1
    /\ (status = "exited") = (exitCount = 1)
    /\ Terminating(call) =>
          /\ call.events = <<WriteEv(FatalMessage(call)), ExitEv(1)>>
          /\ ExitStatus # 0
          /\ stderrCount = call.before + 1
          /\ status = "exited"
    /\ status = "exited" =>
          /\ Terminating(call)
          /\ call.events[Len(call.events)].ev = "exit"

C4_Witness ==
    /\ call.fn = "IfFatalf"
    /\ call.args # <<>>
    /\ call.before > 0
    /\ status = "exited"
    /\ Len(call.events) = 2

\* C5: IfFatal(nil, ...) and IfFatalf(nil, ...) write nothing, never invoke
\* exit and return; IfFatal/IfFatalf invoke exit iff the corresponding
\* IfError/IfErrorf call returns true.
C5_NilIsNotFatal ==
    /\ (call.fn \in {"IfFatal", "IfFatalf"} /\ call.err = NilErr) =>
          /\ call.events = <<>>
          /\ stderrCount = call.before
          /\ exitCount = 0
          /\ status = "running"
    /\ call.fn = "IfFatal" => (Exits(call) = IfError(call.err, call.args).ret)
    /\ call.fn = "IfFatalf" =>
          (Exits(call) = IfErrorf(call.err, call.format, call.args).ret)

C5_Witness ==
    /\ call.fn = "IfFatalf"
    /\ call.err = NilErr
    /\ call.args # <<>>
    /\ call.format # <<>>
    /\ status = "running"

\* C6: Errors.Error() is the header (the placeholder "\n\t" when the header is
\* empty) followed by each item's text in insertion order, all joined with
\* "\n\t"; an item that is itself an Errors contributes its whole rendering
\* unchanged.
C6_ErrorJoinsHeaderAndItems ==
    (mcall.fn = "Error" /\ NoNilEntry(mcall.recv)) =>
        mcall.out = Returned(Rendering(mcall.recv))

C6_Witness ==
    /\ mcall.fn = "Error"
    /\ mcall.recv.Msg = <<"f">>
    /\ mcall.recv.Errs = <<ErrD, ErrorsValue(<<"g">>, <<ErrE>>)>>
    /\ mcall.out.str = <<"f", NL, TAB, "d", NL, TAB, "g", NL, TAB, "e">>

\* C7: with no items Errors.Error() is exactly slot 0, the header or, for an
\* empty header, the two characters newline and tab, with no separator after.
C7_NoItemsRendersSlot0Only ==
    (mcall.fn = "Error" /\ mcall.recv.Errs = <<>>) =>
        /\ mcall.out.ok
        /\ mcall.recv.Msg = <<>> => mcall.out.str = <<NL, TAB>>
        /\ mcall.recv.Msg # <<>> => mcall.out.str = mcall.recv.Msg

C7_Witness ==
    /\ mcall.fn = "Error"
    /\ mcall.recv = ErrorsValue(<<>>, <<>>)
    /\ mcall.out = Returned(<<NL, TAB>>)

\* C8 as stated: Errors.Error() returns a string and never panics, for every
\* header and item sequence, a nil entry included.
C8_ErrorNeverFails ==
    /\ mcall.fn = "Error" => mcall.out.ok
    /\ status # "panicked"

\* C9: Error() and Errors() leave the header and the items as they were,
\* Errors() returns exactly the items in insertion order, and a second Error()
\* on the same value returns the same result as the first.
C9_MethodsAreReadOnly ==
    mcall.fn \in {"Error", "Errors"} =>
        /\ obj = mcall.recv
        /\ mcall.fn = "Errors" => mcall.list = obj.Errs
        /\ (mcall.fn = "Error" /\ mcall.nError = 2) => mcall.out = mcall.first

C9_Witness ==
    /\ mcall.fn = "Errors"
    /\ mcall.nError = 2
    /\ mcall.list = <<ErrE, ErrD>>
    /\ obj.Msg = <<"f">>

\* C10: Log writes the parts joined by single spaces and a line break, Logf
\* writes the formatted text and adds no line break; neither invokes exit.
C10_LogWritesAndNeverExits ==
    /\ call.fn = "Log" =>
          /\ call.events = <<WriteEv(SpaceJoined(call.args) \o <<NL>>)>>
          /\ status = "running" /\ exitCount = 0
          /\ stderrCount = call.before + 1
    /\ call.fn = "Logf" =>
          /\ call.events = <<WriteEv(Sprintf(call.format, call.args))>>
          /\ \A i \in 1..Len(call.events[1].text) : call.events[1].text[i] # NL
          /\ (call.args = <<>> /\ \A i \in 1..Len(call.format) : call.format[i] # "%")
                => call.events[1].text = call.format
          /\ status = "running" /\ exitCount = 0
          /\ stderrCount = call.before + 1

C10_Witness ==
    /\ call.fn = "Log"
    /\ call.args = <<BoolArg(TRUE), StringArg(<<"a">>)>>
    /\ call.events[1].text = <<"t", "r", "u", "e", " ", "a", NL>>

====
